---------------------------- MODULE Spec2Model ----------------------------
(***************************************************************************)
(* Checkout-to-order reconciliation of XRoboFly-BE                         *)
(* (src/src/controller/payment.controller.js): createCheckoutSession,      *)
(* checkoutSuccess and cashfreeWebhook running as concurrent request       *)
(* handlers over the shared stores (Product.stock, Orders, the Redis       *)
(* pending-order keys) and the payment gateway; the administrator's        *)
(* updateOrderStatus (analytics.controller.js); and the account handlers   *)
(* of auth.controller.js over the users collection and the Redis refresh   *)
(* tokens.  Every await of a handler is one step of its process.           *)
(***************************************************************************)
EXTENDS Integers, Sequences, FiniteSets, TLC

\* ------------------------------------------------------------------ bounds
MaxStock == 1
MaxQty == 1
MaxLines == 2
MaxOrders == 1
MaxWorkers == 2
MaxSessions == 1
MaxHooks == 1
MaxAuthWorkers == 2
\* OTPs generated in a behaviour
MaxOtps == 2
\* seconds the clock of the tokens runs
MaxNow == 1

\* length of a signature header that is no digest
ShortLen == 10

\* seconds that pass in one step of the clock
TickStep == 1800

\* --------------------------------------------------------- program constants
\* line 9
PENDING_ORDER_TTL == 3600
MaxAge == 2 * PENDING_ORDER_TTL
\* length of a base64 SHA-256 digest
DigestLen == 44
\* auth.controller.js lines 164, 535: incorrect guesses before the lockout
MaxAttempts == 5

Products == {"p1", "p2"}
BadId == "bad"
ProductIds == Products \cup {BadId}
OrderIds == 1..MaxOrders
\* the order ids of behaviours in which two checkouts compete
RaceIds == 1..(MaxOrders + 1)
NoId == 0
Workers == 1..MaxWorkers
Sessions == 1..MaxSessions
Hooks == 1..MaxHooks
\* req.user?._id?.toString(): an authenticated user, or NoUser for a guest
Users == {"u1", "u2"}
NoUser == ""

\* catalog prices (GST inclusive) at the start
Price(p) == IF p = "p1" THEN 1050 ELSE 525

NoRes == [userId |-> NoUser, products |-> <<>>, subtotal |-> 0, shipping |-> 0,
          tax |-> 0, discount |-> 0, totalAmount |-> 0]

\* catalog prices an administrator may set
Prices == {100, 5000, 5001, 999999}

\* payment_status of the first entry of PGOrderFetchPayments ("NONE": empty list)
GwStatus == {"NONE", "FAILED", "SUCCESS"}

VARIABLES
    stock,      \* Product.stock, per product
    orders,     \* the Orders collection: a set of documents
    pending,    \* Redis pending_order:<id> keys (NoRes = key absent)
    gw,         \* gateway: the order ids PGCreateOrder has created
    secret,     \* process.env.CASHFREE_SECRET_KEY ("" = not configured)
    cs,         \* createCheckoutSession invocations
    co,         \* checkoutSuccess invocations
    wh,         \* cashfreeWebhook invocations
    last,       \* the HTTP answer sent most recently, with the facts of its request
    stock0,     \* history: the stock at the start, plus what was restocked since
    decById,    \* history: units decremented on behalf of each gateway order id
    created,    \* history: ids for which checkoutSuccess answered "order created"
    price,      \* Product.price, per product
    amount,     \* gateway: order_amount of each order id (0 = no such order)
    ttl,        \* Redis: seconds each pending_order key has left (0 = key absent)
    age,        \* history: seconds since each key was set (MaxAge = key absent)
    sent,       \* history: <<"mail" or "shipment", id>> delivered for an order id
    users,      \* the users collection: one document per email (exists = stored)
    refresh,    \* Redis refresh_token:<userId> keys (NoToken = key absent)
    au,         \* invocations of the account handlers
    reply,      \* the HTTP answer an account handler sent most recently
    now,        \* the clock, in seconds
    issued,     \* history: how many OTPs have been generated
    latest,     \* history: the OTP issued most recently for each email
    evaluated,  \* history: incorrect guesses compared with each account's stored OTP
    acceptedOtps,   \* history: the OTPs a verification has accepted
    acceptedTokens, \* history: the refresh tokens refreshToken has accepted
    jar         \* the refresh tokens handed to clients in cookies

\* the state of the accounts: users, tokens and the account handlers
authVars == <<users, refresh, au, reply, now, issued, latest, evaluated,
              acceptedOtps, acceptedTokens, jar>>

vars == <<stock, orders, pending, gw, secret, cs, co, wh, last, stock0, decById,
          created, price, amount, ttl, age, sent, authVars>>

\* ------------------------------------------------------------------ helpers
CartLines == [productId : ProductIds, quantity : 1..MaxQty]
Carts == UNION {[1..n -> CartLines] : n \in 0..MaxLines}

ZeroQty == [p \in Products |-> 0]

Resp(status, message, order) ==
    [status |-> status, message |-> message, order |-> order]

\* an answer with the facts of the request it answers
Answer(handler, r, orderId, sig) ==
    [handler |-> handler, status |-> r.status, message |-> r.message,
     order |-> r.order, orderId |-> orderId, sig |-> sig]
NoAnswer == Answer("", Resp(0, "", 0), NoId, "")

RECURSIVE SumQty(_, _)
\* units of product p in a sequence of lines
SumQty(lines, p) ==
    IF lines = <<>> THEN 0
    ELSE (IF Head(lines).productId = p THEN Head(lines).quantity ELSE 0)
         + SumQty(Tail(lines), p)

RECURSIVE SumPrice(_)
\* lines 99-107: subtotal += product.price * item.quantity
SumPrice(lines) ==
    IF lines = <<>> THEN 0
    ELSE Head(lines).price * Head(lines).quantity + SumPrice(Tail(lines))

RECURSIVE OrderedQty(_, _)
\* units of product p over a set of Order documents
OrderedQty(os, p) ==
    IF os = {} THEN 0
    ELSE LET o == CHOOSE x \in os : TRUE
         IN SumQty(o.products, p) + OrderedQty(os \ {o}, p)

\* the quotient cut off instead of rounded
RoundBaseFloor(S) == (20 * S) \div 21

\* Math.round(subtotalInclGST / 1.05): 20S/21 is never a tie, so
\* floor(20S/21 + 1/2) = (40S + 21) div 42
RoundBase(S) == (40 * S + 21) \div 42

\* lines 119-124
Pricing(S) ==
    LET shipping == IF S > 5000 THEN 0 ELSE 99
        baseSubtotal == RoundBase(S)
    IN [subtotal |-> baseSubtotal, shipping |-> shipping,
        tax |-> S - baseSubtotal, discount |-> 0, totalAmount |-> S + shipping]

\* lines 102-115: the frozen product lines of the reservation
OrderProducts(products, dbProducts) ==
    [i \in 1..Len(products) |->
        [productId |-> products[i].productId,
         price |-> dbProducts[i].price,
         quantity |-> products[i].quantity]]

\* lines 157-168: the JSON stored under pending_order:<id>
Reservation(products, dbProducts, user) ==
    LET op == OrderProducts(products, dbProducts)
        pr == Pricing(SumPrice(op))
    IN [userId |-> user,
        products |-> op, subtotal |-> pr.subtotal, shipping |-> pr.shipping,
        tax |-> pr.tax, discount |-> pr.discount, totalAmount |-> pr.totalAmount]

OrdersFor(id) == {o \in orders : o.cashfreeOrderId = id}

\* ------------------------------------------------------------------ Redis
\* a key that is set without an expiry
RedisSetForever(id, value, seconds) ==
    /\ pending' = [pending EXCEPT ![id] = value]
    /\ ttl' = [ttl EXCEPT ![id] = 2 * MaxAge]
    /\ age' = [age EXCEPT ![id] = 0]

\* lines 155-171: redis.set(key, value, 'EX', seconds)
RedisSet(id, value, seconds) ==
    /\ pending' = [pending EXCEPT ![id] = value]
    /\ ttl' = [ttl EXCEPT ![id] = seconds]
    /\ age' = [age EXCEPT ![id] = 0]

\* a delete that leaves the key where it is
RedisDelKeeps(id) == UNCHANGED <<pending, ttl, age>>

\* lines 291, 338: redis.del(key)
RedisDel(id) ==
    /\ pending' = [pending EXCEPT ![id] = NoRes]
    /\ ttl' = [ttl EXCEPT ![id] = 0]
    /\ age' = [age EXCEPT ![id] = MaxAge]

\* d seconds pass: Redis drops every key whose time to live has run out
Tick(d) ==
    /\ d > 0
    /\ LET gone(id) == ttl[id] <= d
       IN /\ pending' = [id \in DOMAIN pending |-> IF gone(id) THEN NoRes ELSE pending[id]]
          /\ ttl' = [id \in DOMAIN ttl |-> IF gone(id) THEN 0 ELSE ttl[id] - d]
          /\ age' = [id \in DOMAIN age |->
                       IF gone(id) \/ age[id] + d > MaxAge THEN MaxAge ELSE age[id] + d]
    /\ UNCHANGED <<stock, orders, gw, secret, cs, co, wh, last, stock0, decById, created,
                 price, amount, sent,
                 authVars>>

\* ---------------------------------------------------------------- catalog
\* the catalog collaborator: an administrator edits a product's price and stock
CatalogUpdate(p, newPrice, newStock) ==
    /\ price' = [price EXCEPT ![p] = newPrice]
    /\ stock' = [stock EXCEPT ![p] = newStock]
    /\ stock0' = [stock0 EXCEPT ![p] = @ + newStock - stock[p]]
    /\ <<price', stock'>> # <<price, stock>>
    /\ UNCHANGED <<orders, pending, gw, secret, cs, co, wh, last, decById, created,
                 amount, ttl, age, sent,
                 authVars>>

\* ------------------------------------------------- createCheckoutSession
CsIdle == [pc |-> "idle", user |-> NoUser, products |-> <<>>, dbProducts |-> <<>>,
           orderId |-> NoId]
CsAnswer(r) == Answer("createCheckoutSession", r, r.order, "")

\* order ids nobody has used yet (line 127 generates a unique id), among the
\* ids the stores of this behaviour are laid out for
FreeIds == {id \in DOMAIN pending : id \notin gw /\ \A s \in Sessions : cs[s].orderId # id}

\* lines 41-51: request validation, then the first Product.findById is awaited
\* (the unique order id of line 127 is drawn here: it depends on no state)
CsStart(s, products, user) ==
    /\ cs[s].pc = "idle"
    /\ FreeIds # {}
    /\ products \in Carts
    /\ IF Len(products) = 0
       THEN /\ last' = CsAnswer(Resp(400, "Missing required fields", 0))
            /\ UNCHANGED cs
       ELSE /\ cs' = [cs EXCEPT ![s] =
                        [CsIdle EXCEPT !.pc = "fetch", !.user = user,
                                       !.products = products,
                                       !.orderId = CHOOSE id \in FreeIds :
                                                      \A j \in FreeIds : id <= j]]
            /\ UNCHANGED last
    /\ UNCHANGED <<stock, orders, pending, gw, secret, co, wh, stock0, decById, created,
                 price, amount, ttl, age, sent,
                 authVars>>

\* an advisory check that lets every cart through
StockAvailableAlways(products, dbProducts) == TRUE

\* lines 85-96: the advisory stock check over the products read earlier
StockAvailable(products, dbProducts) ==
    \A i \in 1..Len(products) : ~(dbProducts[i].stock < products[i].quantity)

\* lines 57-127: one Product.findById; after the last one the stock check and
\* the pricing, up to the await of PGCreateOrder
CsFetchProduct(s) ==
    /\ cs[s].pc = "fetch"
    /\ LET c == cs[s]
           i == Len(c.dbProducts) + 1
           item == c.products[i]
           db == Append(c.dbProducts, [stock |-> stock[item.productId],
                                       price |-> price[item.productId]])
       IN IF item.productId \notin Products
          THEN /\ cs' = [cs EXCEPT ![s] = CsIdle]
               /\ last' = CsAnswer(Resp(400, "Product not found", 0))
          ELSE IF i < Len(c.products)
          THEN /\ cs' = [cs EXCEPT ![s].dbProducts = db]
               /\ UNCHANGED last
          ELSE IF ~StockAvailable(c.products, db)
          THEN /\ cs' = [cs EXCEPT ![s] = CsIdle]
               /\ last' = CsAnswer(Resp(400, "Insufficient stock", 0))
          ELSE /\ cs' = [cs EXCEPT ![s].dbProducts = db, ![s].pc = "gateway"]
               /\ UNCHANGED last
    /\ UNCHANGED <<stock, orders, pending, gw, secret, co, wh, stock0, decById, created,
                 price, amount, ttl, age, sent,
                 authVars>>

\* lines 130-150: Cashfree.PGCreateOrder answered; the gateway now holds the
\* order with order_amount = totalAmount
CsGatewayOk(s) ==
    /\ cs[s].pc = "gateway"
    /\ gw' = gw \cup {cs[s].orderId}
    /\ amount' = [amount EXCEPT ![cs[s].orderId] =
                     Reservation(cs[s].products, cs[s].dbProducts, cs[s].user).totalAmount]
    /\ cs' = [cs EXCEPT ![s].pc = "store"]
    /\ UNCHANGED <<stock, orders, pending, secret, co, wh, last, stock0, decById, created,
                 price, ttl, age, sent,
                 authVars>>

\* the reservation written before the gateway has answered
CsGatewayFailStored(s) ==
    /\ cs[s].pc = "gateway"
    /\ pending' = [pending EXCEPT ![cs[s].orderId] =
                      Reservation(cs[s].products, cs[s].dbProducts, cs[s].user)]
    /\ cs' = [cs EXCEPT ![s] = CsIdle]
    /\ last' = CsAnswer(Resp(500, "Failed to create checkout session", 0))
    /\ UNCHANGED <<stock, orders, gw, secret, co, wh, stock0, decById, created,
                 price, amount, ttl, age, sent,
                 authVars>>

\* line 150 throws (gateway error or timeout): lines 189-195
CsGatewayFail(s) ==
    /\ cs[s].pc = "gateway"
    /\ cs' = [cs EXCEPT ![s] = CsIdle]
    /\ last' = CsAnswer(Resp(500, "Failed to create checkout session", 0))
    /\ UNCHANGED <<stock, orders, pending, gw, secret, co, wh, stock0, decById, created,
                 price, amount, ttl, age, sent,
                 authVars>>

\* lines 155-187: redis.set of the reservation, then the 200 answer
CsStore(s) ==
    /\ cs[s].pc = "store"
    /\ RedisSet(cs[s].orderId,
                Reservation(cs[s].products, cs[s].dbProducts, cs[s].user),
                PENDING_ORDER_TTL)
    /\ cs' = [cs EXCEPT ![s] = CsIdle]
    /\ last' = CsAnswer(Resp(200, "Checkout session created", cs[s].orderId))
    /\ UNCHANGED <<stock, orders, gw, secret, co, wh, stock0, decById, created,
                 price, amount, sent,
                 authVars>>

\* line 155 throws: lines 189-195
CsStoreFail(s) ==
    /\ cs[s].pc = "store"
    /\ cs' = [cs EXCEPT ![s] = CsIdle]
    /\ last' = CsAnswer(Resp(500, "Failed to create checkout session", 0))
    /\ UNCHANGED <<stock, orders, pending, gw, secret, co, wh, stock0, decById, created,
                 price, amount, ttl, age, sent,
                 authVars>>

\* lines 9, 169-170: the time the key has left passes, and Redis drops the key
Expire(id) ==
    /\ pending[id] # NoRes
    /\ Tick(ttl[id])

\* ------------------------------------------------------- checkoutSuccess
\* applied: the units this invocation has taken from stock and not given back
CoIdle == [pc |-> "idle", user |-> NoUser, orderId |-> NoId, orderData |-> NoRes,
           newOrder |-> 0, i |-> 0, applied |-> ZeroQty]
CoAnswer(c, r) == Answer("checkoutSuccess", r, c.orderId, "")
\* lines 348-354: the catch block
CoError(c, message) == CoAnswer(c, Resp(500, message, 0))

UsedDocs == {o.id : o \in orders} \cup {co[w].newOrder : w \in Workers}
                                  \cup {wh[h].order : h \in Hooks}
\* the _id of a new document: one that nothing refers to
FreshDoc == CHOOSE d \in 1..(Cardinality(UsedDocs) + 1) :
                d \notin UsedDocs /\ \A e \in 1..(d - 1) : e \in UsedDocs

\* no unique index: every insert is accepted
DuplicateKeyNever(orderId) == FALSE

\* the unique index on Order.cashfreeOrderId: an insert of a second document
\* with the same gateway order id is refused with a duplicate-key error
DuplicateKey(orderId) == OrdersFor(orderId) # {}

\* an Order priced from the catalog as it is when the Order is created
NewOrderRepriced(id, orderId, orderData) ==
    LET lines == [k \in 1..Len(orderData.products) |->
                    [productId |-> orderData.products[k].productId,
                     quantity |-> orderData.products[k].quantity,
                     price |-> price[orderData.products[k].productId]]]
    IN [id |-> id,
        user |-> orderData.userId,
        products |-> lines,
        totalAmount |-> Pricing(SumPrice(lines)).totalAmount,
        orderStatus |-> "pending",
        cashfreeOrderId |-> orderId]

\* lines 266-279: the document Order.create writes
NewOrder(id, orderId, orderData) ==
    [id |-> id,
     user |-> orderData.userId,
     products |-> [k \in 1..Len(orderData.products) |->
                     [productId |-> orderData.products[k].productId,
                      quantity |-> orderData.products[k].quantity,
                      price |-> orderData.products[k].price]],
     totalAmount |-> orderData.totalAmount,
     orderStatus |-> "pending",
     cashfreeOrderId |-> orderId]

\* the decrement without its stock condition
StockFilterAlways(item) == TRUE
\* a decrement of one unit too many
StockIncOffByOne(item) == [stock EXCEPT ![item.productId] = @ - item.quantity - 1]

\* lines 283-287: the filter { _id, stock: { $gte: quantity } }
StockFilter(item) == stock[item.productId] >= item.quantity
\* lines 283-287: the update { $inc: { stock: -quantity } }
StockInc(item) == [stock EXCEPT ![item.productId] = @ - item.quantity]

\* a request is handled by the first worker that is free
FirstFree(w) == co[w].pc = "idle" /\ \A v \in 1..(w - 1) : co[v].pc # "idle"

\* a variant of line 229 that lets any payment attempt through, failed or not
PaymentAttempted(payment) == payment # "NONE"

\* lines 219, 229: there is a latest payment and its payment_status is SUCCESS
PaymentCompleted(payment) == payment = "SUCCESS"

\* lines 204-235: the request validation and the answer of PGOrderFetchPayments,
\* which is `payment` for an order the gateway knows and an error otherwise
CoStart(w, orderId, payment, user) ==
    /\ FirstFree(w)
    /\ LET c == [CoIdle EXCEPT !.orderId = orderId, !.user = user]
       IN IF orderId # NoId /\ orderId \in gw /\ PaymentCompleted(payment)
          THEN /\ co' = [co EXCEPT ![w] = [c EXCEPT !.pc = "findOrder"]]
               /\ UNCHANGED last
          ELSE /\ last' = IF orderId = NoId
                          THEN CoAnswer(c, Resp(400, "Order ID is required", 0))
                          ELSE IF orderId \notin gw
                          THEN CoError(c, "order_not_found")
                          ELSE IF payment = "NONE"
                          THEN CoAnswer(c, Resp(400, "No payment information found", 0))
                          ELSE CoAnswer(c, Resp(400, "Payment not completed", 0))
               /\ UNCHANGED co
    /\ UNCHANGED <<stock, orders, pending, gw, secret, cs, wh, stock0, decById, created,
                 price, amount, ttl, age, sent,
                 authVars>>

\* line 216 throws (gateway error or timeout): lines 348-354
CoFetchThrows(w, orderId) ==
    /\ FirstFree(w)
    /\ orderId \in gw
    /\ last' = CoError([CoIdle EXCEPT !.orderId = orderId], "Failed to verify payment")
    /\ UNCHANGED <<stock, orders, pending, gw, secret, cs, co, wh, stock0, decById, created,
                 price, amount, ttl, age, sent,
                 authVars>>

\* lines 238-245: Order.findOne({ cashfreeOrderId })
CoFindOrder(w) ==
    /\ co[w].pc = "findOrder"
    /\ LET c == co[w]
           existing == OrdersFor(c.orderId)
       IN IF existing # {}
          THEN /\ co' = [co EXCEPT ![w] = CoIdle]
               /\ last' = CoAnswer(c, Resp(200, "Order already processed",
                                           (CHOOSE o \in existing : TRUE).id))
          ELSE /\ co' = [co EXCEPT ![w].pc = "getPending"]
               /\ UNCHANGED last
    /\ UNCHANGED <<stock, orders, pending, gw, secret, cs, wh, stock0, decById, created,
                 price, amount, ttl, age, sent,
                 authVars>>

\* the reservation looked up in the memory of the handling process
\* (global.pendingOrders, which nothing in the program fills)
LocalLookup(w, orderId) == NoRes

\* line 248: redis.get(PENDING_KEY(orderId)), the same store for every worker
PendingLookup(w, orderId) == pending[orderId]

\* the ownership check left out
OwnershipNeverChecked(orderData, user) == FALSE

\* line 258: orderData.userId && req.user?._id?.toString() !== orderData.userId
Unauthorized(orderData, user) == orderData.userId # NoUser /\ user # orderData.userId

\* lines 248-263: redis.get of the reservation, then the ownership check
CoGetPending(w) ==
    /\ co[w].pc = "getPending"
    /\ LET c == co[w]
           orderData == PendingLookup(w, c.orderId)
       IN IF orderData = NoRes
          THEN /\ co' = [co EXCEPT ![w] = CoIdle]
               /\ last' = CoAnswer(c, Resp(400, "Order data not found. Session may have expired.", 0))
          ELSE IF Unauthorized(orderData, c.user)
          THEN /\ co' = [co EXCEPT ![w] = CoIdle]
               /\ last' = CoAnswer(c, Resp(403, "Unauthorized", 0))
          ELSE /\ co' = [co EXCEPT ![w].pc = "create", ![w].orderData = orderData]
               /\ UNCHANGED last
    /\ UNCHANGED <<stock, orders, pending, gw, secret, cs, wh, stock0, decById, created,
                 price, amount, ttl, age, sent,
                 authVars>>

\* lines 266-279: Order.create; a refused insert throws into lines 348-354
CoCreate(w) ==
    /\ co[w].pc = "create"
    /\ LET c == co[w]
       IN IF DuplicateKey(c.orderId)
          THEN /\ co' = [co EXCEPT ![w] = CoIdle]
               /\ last' = CoAnswer(c, Resp(500, "E11000 duplicate key error", 0))
               /\ UNCHANGED orders
          ELSE /\ orders' = orders \cup {NewOrder(FreshDoc, c.orderId, c.orderData)}
               /\ co' = [co EXCEPT ![w].pc = "decrement", ![w].newOrder = FreshDoc,
                                   ![w].i = 1]
               /\ UNCHANGED last
    /\ UNCHANGED <<stock, pending, gw, secret, cs, wh, stock0, decById, created,
                 price, amount, ttl, age, sent,
                 authVars>>

\* lines 282-297: one Product.findOneAndUpdate of the loop
CoDecrement(w) ==
    /\ co[w].pc = "decrement"
    /\ LET c == co[w]
           item == c.orderData.products[c.i]
       IN IF StockFilter(item)
          THEN /\ stock' = StockInc(item)
               /\ decById' = [decById EXCEPT ![c.orderId][item.productId] =
                                  @ + stock[item.productId] - stock'[item.productId]]
               /\ co' = [co EXCEPT ![w].applied[item.productId] = @ + item.quantity,
                                   ![w].i = c.i + 1,
                                   ![w].pc = IF c.i = Len(c.orderData.products)
                                             THEN "cleanup" ELSE "decrement"]
          ELSE /\ co' = [co EXCEPT ![w].pc = "rollbackOrder"]
               /\ UNCHANGED <<stock, decById>>
    /\ UNCHANGED <<orders, pending, gw, secret, cs, wh, last, stock0, created,
                 price, amount, ttl, age, sent,
                 authVars>>

\* line 290: Order.findByIdAndDelete(newOrder._id)
CoRollbackOrder(w) ==
    /\ co[w].pc = "rollbackOrder"
    /\ orders' = {o \in orders : o.id # co[w].newOrder}
    /\ co' = [co EXCEPT ![w].pc = "rollbackRedis"]
    /\ UNCHANGED <<stock, pending, gw, secret, cs, wh, last, stock0, decById, created,
                 price, amount, ttl, age, sent,
                 authVars>>

\* lines 291-295: redis.del, then the 409 answer
CoRollbackRedis(w) ==
    /\ co[w].pc = "rollbackRedis"
    /\ RedisDel(co[w].orderId)
    /\ co' = [co EXCEPT ![w] = CoIdle]
    /\ last' = CoAnswer(co[w], Resp(409, "Insufficient stock", 0))
    /\ UNCHANGED <<stock, orders, gw, secret, cs, wh, stock0, decById, created,
                 price, amount, sent,
                 authVars>>

\* a failed mail or shipment that reaches the handler's catch
DispatchUncaught(mailOk, shipOk) == ~mailOk \/ ~shipOk

\* lines 300-335: sendMail and createShipmentForOrder each sit in a try/catch
\* of their own that only logs, so neither failure leaves its block
DispatchAborts(mailOk, shipOk) == FALSE

\* lines 300-346: sendMail and createShipmentForOrder (mailOk, shipOk: whether
\* each succeeds), then redis.del and the 200 answer
CoCleanup(w, mailOk, shipOk) ==
    /\ co[w].pc = "cleanup"
    /\ sent' = sent \cup (IF mailOk THEN {<<"mail", co[w].orderId>>} ELSE {})
                    \cup (IF shipOk THEN {<<"shipment", co[w].orderId>>} ELSE {})
    /\ co' = [co EXCEPT ![w] = CoIdle]
    /\ IF DispatchAborts(mailOk, shipOk)
       THEN /\ last' = CoError(co[w], "Failed to verify payment")
            /\ UNCHANGED <<pending, ttl, age, created>>
       ELSE /\ RedisDel(co[w].orderId)
            /\ last' = CoAnswer(co[w], Resp(200, "Payment verified and order created",
                                            co[w].newOrder))
            /\ created' = created \cup {co[w].orderId}
    /\ UNCHANGED <<stock, orders, gw, secret, cs, wh, stock0, decById,
                 price, amount,
                 authVars>>

\* lines 348-354: an awaited call (database, Redis) throws or times out
CoThrow(w) ==
    /\ co[w].pc \in {"findOrder", "getPending", "create", "decrement",
                     "rollbackOrder", "rollbackRedis", "cleanup"}
    /\ co' = [co EXCEPT ![w] = CoIdle]
    /\ last' = CoError(co[w], "Failed to verify payment")
    /\ UNCHANGED <<stock, orders, pending, gw, secret, cs, wh, stock0, decById, created,
                 price, amount, ttl, age, sent,
                 authVars>>

\* ------------------------------------------------------- cashfreeWebhook
GatewayKey == "k1"
Timestamps == {<<"t1">>}
NoHeader == <<>>
WebhookTypes == {"PAYMENT_SUCCESS_WEBHOOK", "PAYMENT_FAILED_WEBHOOK",
                 "PAYMENT_USER_DROPPED_WEBHOOK", "PAYMENT_CHARGES_WEBHOOK"}
\* the raw JSON text as its tokens: <<type, order_id>>, or <<type>> for a
\* test payload that carries no data.order
Bodies == {<<t, ToString(id)>> : t \in WebhookTypes, id \in OrderIds}
              \cup {<<"WEBHOOK_TEST">>}

\* a signature header: a base64 digest, some other text, or absent
NoSig == [kind |-> "absent", key |-> "", msg |-> <<>>, len |-> 0]
Junk(len) == [kind |-> "junk", key |-> "", msg |-> <<>>, len |-> len]
\* a digest over the timestamp alone
HmacTimestampOnly(key, payload) ==
    [kind |-> "hmac", key |-> key, msg |-> SubSeq(payload, 1, 1), len |-> DigestLen]

\* lines 16-19: createHmac('sha256', key).update(payload).digest('base64'),
\* an ideal MAC: equal digests only for equal key and payload, 44 characters
Hmac(key, payload) == [kind |-> "hmac", key |-> key, msg |-> payload, len |-> DigestLen]

\* line 20: crypto.timingSafeEqual throws on buffers of different length
timingSafeEqual(a, b) ==
    IF a.len # b.len THEN "throws" ELSE IF a = b THEN "true" ELSE "false"

\* lines 13-21
verifyCashfreeWebhook(rawBody, timestamp, signature) ==
    IF secret = "" \/ rawBody = <<>> \/ timestamp = NoHeader \/ signature = NoSig
    THEN "false"
    ELSE timingSafeEqual(Hmac(secret, timestamp \o rawBody), signature)

\* bodyParser.json: req.body of the raw text (lines 373, 378, 383)
BodyType(rawBody) == IF Len(rawBody) >= 1 THEN rawBody[1] ELSE ""
BodyOrderId(rawBody) ==
    IF Len(rawBody) >= 2 /\ \E id \in OrderIds : ToString(id) = rawBody[2]
    THEN CHOOSE id \in OrderIds : ToString(id) = rawBody[2]
    ELSE NoId

Requests == [timestamp : Timestamps \cup {NoHeader},
             signature : {NoSig, Junk(DigestLen), Junk(ShortLen)}
                         \cup {Hmac(GatewayKey, t \o b) : t \in Timestamps, b \in Bodies},
             rawBody : Bodies]

\* facts of a request: a header is missing; the gateway signed exactly this
\* timestamp and body; the gateway signed this timestamp with another body
MissingHeader(req) == req.timestamp = NoHeader \/ req.signature = NoSig
GatewaySigned(req) ==
    ~MissingHeader(req) /\ req.signature = Hmac(GatewayKey, req.timestamp \o req.rawBody)
Tampered(req) ==
    /\ ~MissingHeader(req)
    /\ \E b \in Bodies : b # req.rawBody /\ req.signature = Hmac(GatewayKey, req.timestamp \o b)
SigClass(req) ==
    IF MissingHeader(req) THEN "missing"
    ELSE IF GatewaySigned(req) THEN "signed"
    ELSE IF Tampered(req) THEN "tampered"
    ELSE "other"

WhIdle == [pc |-> "idle", type |-> "", orderId |-> NoId, order |-> 0,
           target |-> "", sig |-> ""]
WhAnswer(c, r) == Answer("cashfreeWebhook", r, c.orderId, c.sig)

\* lines 362-418: the signature check, the payload validation, Order.findOne
\* and the switch on the webhook type, up to the await of order.save().  The
\* steps before Order.findOne read no shared state, so they are taken with it.
WhReceive(h, req) ==
    /\ wh[h].pc = "idle"
    /\ LET c == [WhIdle EXCEPT !.type = BodyType(req.rawBody),
                               !.orderId = BodyOrderId(req.rawBody),
                               !.sig = SigClass(req)]
           checked == req.timestamp # NoHeader /\ req.signature # NoSig
           v == verifyCashfreeWebhook(req.rawBody, req.timestamp, req.signature)
           found == OrdersFor(c.orderId)
           order == CHOOSE o \in found : TRUE
           save == /\ found # {}
                   /\ \/ c.type = "PAYMENT_SUCCESS_WEBHOOK" /\ order.orderStatus = "pending"
                      \/ c.type \in {"PAYMENT_FAILED_WEBHOOK", "PAYMENT_USER_DROPPED_WEBHOOK"}
       IN IF checked /\ v = "throws"
          THEN /\ last' = WhAnswer(c, Resp(200, "Webhook received", 0))
               /\ UNCHANGED wh
          ELSE IF checked /\ v = "false"
          THEN /\ last' = WhAnswer(c, Resp(401, "Invalid signature", 0))
               /\ UNCHANGED wh
          ELSE IF c.orderId = NoId
          THEN /\ last' = WhAnswer(c, Resp(200, "Webhook acknowledged", 0))
               /\ UNCHANGED wh
          ELSE IF found = {}
          THEN /\ last' = WhAnswer(c, Resp(200, "Order not found", 0))
               /\ UNCHANGED wh
          ELSE IF save
          THEN /\ wh' = [wh EXCEPT ![h] =
                           [c EXCEPT !.pc = "save", !.order = order.id,
                                     !.target = IF c.type = "PAYMENT_SUCCESS_WEBHOOK"
                                                THEN "processing" ELSE "cancelled"]]
               /\ UNCHANGED last
          ELSE /\ last' = WhAnswer(c, Resp(200, "", order.id))
               /\ UNCHANGED wh
    /\ UNCHANGED <<stock, orders, pending, gw, secret, cs, co, stock0, decById, created,
                 price, amount, ttl, age, sent,
                 authVars>>

\* line 384 throws: lines 420-424 answer 200 all the same
WhFindThrows(h, req) ==
    /\ wh[h].pc = "idle"
    /\ ~(req.timestamp # NoHeader /\ req.signature # NoSig
         /\ verifyCashfreeWebhook(req.rawBody, req.timestamp, req.signature) # "true")
    /\ BodyOrderId(req.rawBody) # NoId
    /\ last' = WhAnswer([WhIdle EXCEPT !.type = BodyType(req.rawBody),
                                       !.orderId = BodyOrderId(req.rawBody),
                                       !.sig = SigClass(req)],
                        Resp(200, "Webhook received", 0))
    /\ UNCHANGED <<stock, orders, pending, gw, secret, cs, co, wh, stock0, decById, created,
                 price, amount, ttl, age, sent,
                 authVars>>

\* lines 397, 404, 410: order.save() writes the changed orderStatus of the
\* document with that _id, and throws when the document is gone (lines 420-424)
WhSave(h) ==
    /\ wh[h].pc = "save"
    /\ LET c == wh[h]
       IN IF \E o \in orders : o.id = c.order
          THEN /\ orders' = {IF o.id = c.order
                             THEN [o EXCEPT !.orderStatus = c.target] ELSE o
                             : o \in orders}
               /\ last' = WhAnswer(c, Resp(200, "", c.order))
          ELSE /\ last' = WhAnswer(c, Resp(200, "Webhook received", 0))
               /\ UNCHANGED orders
    /\ wh' = [wh EXCEPT ![h] = WhIdle]
    /\ UNCHANGED <<stock, pending, gw, secret, cs, co, stock0, decById, created,
                 price, amount, ttl, age, sent,
                 authVars>>

\* order.save() throws: lines 420-424 answer 200 all the same
WhSaveThrows(h) ==
    /\ wh[h].pc = "save"
    /\ wh' = [wh EXCEPT ![h] = WhIdle]
    /\ last' = WhAnswer(wh[h], Resp(200, "Webhook received", 0))
    /\ UNCHANGED <<stock, orders, pending, gw, secret, cs, co, stock0, decById, created,
                 price, amount, ttl, age, sent,
                 authVars>>

\* ----------------------------------------------------------- updateOrderStatus

\* analytics.controller.js line 182
validStatuses == {"pending", "processing", "shipped", "delivered", "cancelled"}
\* the status texts a request may carry: the valid ones and another
StatusInputs == validStatuses \cup {"refunded"}
\* the _id values a request may name: those of stored Orders and one of none
DocIds == 1..(MaxOrders + 1)

\* analytics.controller.js lines 177-239: the administrator's status change.
\* Order.findByIdAndUpdate (lines 194-198) writes the requested status in one
\* atomic step whatever the current one is; the shipping mail (lines 208-224)
\* is sent for 'shipped' when the Order has a user, and its failure is only
\* logged.  trackingUrl is not part of the model's Order.
updateOrderStatus(doc, status, mailOk) ==
    /\ IF status \notin validStatuses
       THEN /\ last' = Answer("updateOrderStatus",
                              Resp(400, "Invalid order status", 0), NoId, "")
            /\ UNCHANGED <<orders, sent>>
       ELSE IF \A o \in orders : o.id # doc
       THEN /\ last' = Answer("updateOrderStatus",
                              Resp(404, "Order not found", 0), NoId, "")
            /\ UNCHANGED <<orders, sent>>
       ELSE LET order == CHOOSE o \in orders : o.id = doc
            IN /\ orders' = (orders \ {order})
                                \cup {[order EXCEPT !.orderStatus = status]}
               /\ sent' = IF status = "shipped" /\ order.user # NoUser /\ mailOk
                          THEN sent \cup {<<"shipped", order.cashfreeOrderId>>}
                          ELSE sent
               /\ last' = Answer("updateOrderStatus",
                                 Resp(200, "Order status updated successfully", doc),
                                 order.cashfreeOrderId, "")
    /\ UNCHANGED <<stock, pending, gw, secret, cs, co, wh, stock0, decById, created,
                 price, amount, ttl, age,
                 authVars>>

\* ---------------------------------------------------------------- accounts
\* auth.controller.js.  A user's _id stands for the email of the account.
Emails == {"a@x", "b@x"}
NoEmail == ""
\* the emails somebody signs up with
Members == {"a@x"}
AuthWorkers == 1..MaxAuthWorkers

\* the OTPs generateOTP() returns, in the order of their generation (lines 70,
\* 102, 234, 484), a text it never returns, and a request without otp
Otps == 1..MaxOtps
NeverIssued == 0
NoOtp == -1
OtpInputs == Otps \cup {NeverIssued, NoOtp}

\* line 15: the SHA-256 digest of the OTP's text; undefined has no digest
hashOTP(otp) == <<"sha256", otp>>
NoHash == <<"undefined", 0>>

\* lines 364-365 (and 24-36): jwt.sign of {userId} at second iat; the signature
\* is a function of the payload, so equal payloads give equal tokens
Sign(userId, iat) == [userId |-> userId, iat |-> iat]
NoToken == [userId |-> NoEmail, iat |-> 0]
\* a cookie the server never signed
JunkToken == [userId |-> "junk", iat |-> 0]

\* a document of the users collection; expired: the clock has passed otpExpires
NoUserDoc == [exists |-> FALSE, isVerified |-> FALSE, verificationOTP |-> NoHash,
              expired |-> FALSE, otpAttempts |-> 0]

AuIdle == [pc |-> "idle", handler |-> "", email |-> NoEmail, otp |-> NoOtp,
           attempts |-> 0, token |-> NoToken, newToken |-> NoToken]
AuReply(handler, email, status, message) ==
    [handler |-> handler, email |-> email, status |-> status, message |-> message]
NoReply == AuReply("", NoEmail, 0, "")

\* the handlers are interchangeable: a request takes the first idle one
AuFirstFree(w) == au[w].pc = "idle" /\ \A v \in 1..(w - 1) : au[v].pc # "idle"

\* the frame of a step that answers or moves on without writing a store
AuOnly == UNCHANGED <<users, refresh, now, latest, acceptedOtps, acceptedTokens, jar>>
PayUnchanged ==
    UNCHANGED <<stock, orders, pending, gw, secret, cs, co, wh, last, stock0, decById,
                created, price, amount, ttl, age, sent>>

\* an answer that ends the invocation of worker w
AuAnswer(w, handler, email, status, message) ==
    /\ au' = [au EXCEPT ![w] = AuIdle]
    /\ reply' = AuReply(handler, email, status, message)

\* an invocation that goes on to its save with a newly generated OTP
AuIssue(w, handler, email, pc) ==
    /\ issued < MaxOtps
    /\ issued' = issued + 1
    /\ au' = [au EXCEPT ![w] = [AuIdle EXCEPT !.pc = pc, !.handler = handler,
                                              !.email = email, !.otp = issued + 1]]
    /\ UNCHANGED reply

\* user.save() of a handler that issued an OTP: verificationOTP, otpExpires
\* and otpAttempts = 0 are the paths it writes
SaveIssued(w) ==
    /\ users' = [users EXCEPT ![au[w].email] =
                    [@ EXCEPT !.exists = TRUE,
                              !.verificationOTP = hashOTP(au[w].otp),
                              !.expired = FALSE,
                              !.otpAttempts = 0]]
    /\ latest' = [latest EXCEPT ![au[w].email] = au[w].otp]
    /\ evaluated' = [evaluated EXCEPT ![au[w].email] = 0]

\* lines 59-67, 102-103: signup up to its write
signupFind(w, email) ==
    /\ AuFirstFree(w)
    /\ \A v \in AuthWorkers : au[v].handler # "signup"
    /\ IF users[email].exists /\ users[email].isVerified
       THEN /\ AuAnswer(w, "signup", email, 400,
                        "User already exists. Please login instead.")
            /\ UNCHANGED issued
       ELSE AuIssue(w, "signup", email,
                    IF users[email].exists THEN "signupSave" ELSE "signupCreate")
    /\ UNCHANGED evaluated
    /\ AuOnly
    /\ PayUnchanged

\* lines 69-99: the unverified account gets a new OTP
signupSave(w) ==
    /\ au[w].pc = "signupSave"
    /\ SaveIssued(w)
    /\ AuAnswer(w, "signup", au[w].email, 200,
                "You have an unverified account. A new OTP has been sent to your email.")
    /\ UNCHANGED <<refresh, now, issued, acceptedOtps, acceptedTokens, jar>>
    /\ PayUnchanged

\* lines 105-139: User.create of the unverified account with its OTP
signupCreate(w) ==
    /\ au[w].pc = "signupCreate"
    /\ SaveIssued(w)
    /\ AuAnswer(w, "signup", au[w].email, 201,
                "OTP sent to your email. Please verify to complete registration.")
    /\ UNCHANGED <<refresh, now, issued, acceptedOtps, acceptedTokens, jar>>
    /\ PayUnchanged

\* lines 220-235: resendOTP up to its write
resendFind(w, email) ==
    /\ AuFirstFree(w)
    /\ IF ~users[email].exists
       THEN /\ AuAnswer(w, "resendOTP", email, 404, "User not found")
            /\ UNCHANGED issued
       ELSE IF users[email].isVerified
       THEN /\ AuAnswer(w, "resendOTP", email, 400, "User is already verified")
            /\ UNCHANGED issued
       ELSE AuIssue(w, "resendOTP", email, "resendSave")
    /\ UNCHANGED evaluated
    /\ AuOnly
    /\ PayUnchanged

\* lines 237-264
resendSave(w) ==
    /\ au[w].pc = "resendSave"
    /\ SaveIssued(w)
    /\ AuAnswer(w, "resendOTP", au[w].email, 200, "New OTP sent to your email")
    /\ UNCHANGED <<refresh, now, issued, acceptedOtps, acceptedTokens, jar>>
    /\ PayUnchanged

\* lines 466-485: forgotPassword up to its write
forgotFind(w, email) ==
    /\ AuFirstFree(w)
    /\ IF email = NoEmail
       THEN /\ AuAnswer(w, "forgotPassword", email, 400,
                        "Please provide your email address")
            /\ UNCHANGED issued
       ELSE IF ~users[email].exists \/ ~users[email].isVerified
       THEN /\ AuAnswer(w, "forgotPassword", email, 200,
                "If an account exists with this email, you will receive an OTP shortly.")
            /\ UNCHANGED issued
       ELSE AuIssue(w, "forgotPassword", email, "forgotSave")
    /\ UNCHANGED evaluated
    /\ AuOnly
    /\ PayUnchanged

\* lines 487-514
forgotSave(w) ==
    /\ au[w].pc = "forgotSave"
    /\ SaveIssued(w)
    /\ AuAnswer(w, "forgotPassword", au[w].email, 200,
                "Password reset OTP sent to your email")
    /\ UNCHANGED <<refresh, now, issued, acceptedOtps, acceptedTokens, jar>>
    /\ PayUnchanged

\* lines 163-173 and 534-543: the checks of both verification handlers on the
\* document u they read, for the guess otp
OtpCheck(u, otp) ==
    IF u.otpAttempts >= MaxAttempts THEN "locked"
    ELSE IF u.expired THEN "expired"
    ELSE IF u.verificationOTP # hashOTP(otp) THEN "mismatch"
    ELSE "match"

\* one more guess was compared with the stored OTP of the account and found
\* incorrect (counted up to one more than the lockout allows)
Evaluate(email) ==
    evaluated' = [evaluated EXCEPT ![email] =
                     IF users[email].verificationOTP = NoHash \/ @ > MaxAttempts
                     THEN @ ELSE @ + 1]

\* the answers and the continuation both verification handlers share
VerifyChecked(w, handler, email, otp, lockedMessage, okPc, failPc) ==
    LET u == users[email]
        c == OtpCheck(u, otp)
        next(pc) == au' = [au EXCEPT ![w] =
                              [AuIdle EXCEPT !.pc = pc, !.handler = handler,
                                             !.email = email, !.otp = otp,
                                             !.attempts = u.otpAttempts]]
    IN CASE c = "locked" ->
               /\ AuAnswer(w, handler, email, 429, lockedMessage)
               /\ UNCHANGED evaluated
         [] c = "expired" ->
               /\ AuAnswer(w, handler, email, 400,
                           "OTP has expired. Please request a new one.")
               /\ UNCHANGED evaluated
         [] c = "mismatch" ->
               /\ next(failPc)
               /\ Evaluate(email)
               /\ UNCHANGED reply
         [] c = "match" ->
               /\ next(okPc)
               /\ UNCHANGED <<reply, evaluated>>

\* lines 150-173: verifyOTP up to its write
verifyFind(w, email, otp) ==
    /\ AuFirstFree(w)
    /\ IF ~users[email].exists
       THEN /\ AuAnswer(w, "verifyOTP", email, 404, "User not found")
            /\ UNCHANGED evaluated
       ELSE IF users[email].isVerified
       THEN /\ AuAnswer(w, "verifyOTP", email, 400, "User is already verified")
            /\ UNCHANGED evaluated
       ELSE VerifyChecked(w, "verifyOTP", email, otp,
                "Too many incorrect OTP attempts. Please request a new OTP.",
                "verifySave", "attemptSave")
    /\ UNCHANGED issued
    /\ AuOnly
    /\ PayUnchanged

\* lines 174-177 and 544-547: user.save() writes otpAttempts, one more than the
\* value this invocation read, and the handler answers 400
attemptSave(w) ==
    /\ au[w].pc = "attemptSave"
    /\ users' = [users EXCEPT ![au[w].email].otpAttempts = au[w].attempts + 1]
    /\ AuAnswer(w, au[w].handler, au[w].email, 400, "Invalid OTP")
    /\ UNCHANGED <<refresh, now, issued, latest, evaluated, acceptedOtps,
                   acceptedTokens, jar>>
    /\ PayUnchanged

\* lines 180-184: the account is verified and its OTP cleared
verifySave(w) ==
    /\ au[w].pc = "verifySave"
    /\ users' = [users EXCEPT ![au[w].email] =
                    [@ EXCEPT !.isVerified = TRUE, !.verificationOTP = NoHash,
                              !.expired = FALSE, !.otpAttempts = 0]]
    /\ au' = [au EXCEPT ![w].pc = "verifyStore"]
    /\ UNCHANGED <<refresh, reply, now, issued, latest, evaluated, acceptedOtps,
                   acceptedTokens, jar>>
    /\ PayUnchanged

\* lines 186-213: the tokens are signed, the refresh token stored and sent
verifyStore(w) ==
    /\ au[w].pc = "verifyStore"
    /\ refresh' = [refresh EXCEPT ![au[w].email] = Sign(au[w].email, now)]
    /\ jar' = jar \cup {Sign(au[w].email, now)}
    /\ acceptedOtps' = acceptedOtps \cup {au[w].otp}
    /\ AuAnswer(w, "verifyOTP", au[w].email, 200,
                "Email verified successfully! Welcome aboard!")
    /\ UNCHANGED <<users, now, issued, latest, evaluated, acceptedTokens>>
    /\ PayUnchanged

\* lines 521-543: verifyResetOTP up to its write
resetFind(w, email, otp) ==
    /\ AuFirstFree(w)
    /\ IF email = NoEmail \/ otp = NoOtp
       THEN /\ AuAnswer(w, "verifyResetOTP", email, 400, "Please provide email and OTP")
            /\ UNCHANGED evaluated
       ELSE IF ~users[email].exists
       THEN /\ AuAnswer(w, "verifyResetOTP", email, 404, "User not found")
            /\ UNCHANGED evaluated
       ELSE VerifyChecked(w, "verifyResetOTP", email, otp,
                "Too many incorrect attempts. Please request a new OTP.",
                "resetSave", "attemptSave")
    /\ UNCHANGED issued
    /\ AuOnly
    /\ PayUnchanged

\* lines 550-566: the OTP is cleared and the reset token answered
resetSave(w) ==
    /\ au[w].pc = "resetSave"
    /\ users' = [users EXCEPT ![au[w].email] =
                    [@ EXCEPT !.verificationOTP = NoHash, !.expired = FALSE,
                              !.otpAttempts = 0]]
    /\ acceptedOtps' = acceptedOtps \cup {au[w].otp}
    /\ AuAnswer(w, "verifyResetOTP", au[w].email, 200,
                "OTP verified successfully. You can now reset your password.")
    /\ UNCHANGED <<refresh, now, issued, latest, evaluated, acceptedTokens, jar>>
    /\ PayUnchanged

\* lines 168, 539: the clock passes the otpExpires of a stored OTP
OtpTimesOut(email) ==
    /\ users[email].verificationOTP # NoHash
    /\ ~users[email].expired
    /\ users' = [users EXCEPT ![email].expired = TRUE]
    /\ UNCHANGED <<refresh, au, reply, now, issued, latest, evaluated, acceptedOtps,
                   acceptedTokens, jar>>
    /\ PayUnchanged

\* lines 271-323: login with a right or wrong password.  Its only write is
\* storeRefreshToken (line 286), so the handler is taken as one step.
login(email, passwordOk) ==
    /\ email \in Emails
    /\ IF users[email].exists /\ passwordOk
       THEN IF ~users[email].isVerified
            THEN /\ reply' = AuReply("login", email, 403,
                     "Please verify your email before logging in. Check your inbox for the OTP code.")
                 /\ UNCHANGED <<refresh, jar>>
            ELSE /\ refresh' = [refresh EXCEPT ![email] = Sign(email, now)]
                 /\ jar' = jar \cup {Sign(email, now)}
                 /\ reply' = AuReply("login", email, 200, "Login successful")
       ELSE /\ reply' = AuReply("login", email, 400, "Invalid email or password")
            /\ UNCHANGED <<refresh, jar>>
    /\ UNCHANGED <<users, au, now, issued, latest, evaluated, acceptedOtps,
                   acceptedTokens>>
    /\ PayUnchanged

\* the cookies a request may carry: none, one the server never signed, and
\* every refresh token a client was given
Cookies == jar \cup {NoToken, JunkToken}

\* lines 348-365: the cookie is verified and compared with the stored token
\* that redis.get returns; the new tokens are signed at this second
refreshGet(w, token) ==
    /\ AuFirstFree(w)
    /\ token \in Cookies
    /\ IF token = NoToken
       THEN AuAnswer(w, "refreshToken", NoEmail, 401, "No refresh token provided")
       ELSE IF token = JunkToken
       THEN AuAnswer(w, "refreshToken", NoEmail, 500, "Server error")
       ELSE IF refresh[token.userId] # token
       THEN AuAnswer(w, "refreshToken", token.userId, 401, "Invalid refresh token")
       ELSE /\ au' = [au EXCEPT ![w] =
                        [AuIdle EXCEPT !.pc = "refreshStore", !.handler = "refreshToken",
                                       !.email = token.userId, !.token = token,
                                       !.newToken = Sign(token.userId, now)]]
            /\ UNCHANGED reply
    /\ UNCHANGED <<issued, evaluated>>
    /\ AuOnly
    /\ PayUnchanged

\* lines 366-372 (storeRefreshToken, lines 38-40): the new token replaces the
\* stored one and goes to the client
refreshStore(w) ==
    /\ au[w].pc = "refreshStore"
    /\ refresh' = [refresh EXCEPT ![au[w].email] = au[w].newToken]
    /\ jar' = jar \cup {au[w].newToken}
    /\ acceptedTokens' = acceptedTokens \cup {au[w].token}
    /\ AuAnswer(w, "refreshToken", au[w].email, 200, "Token refreshed successfully")
    /\ UNCHANGED <<users, now, issued, latest, evaluated, acceptedOtps>>
    /\ PayUnchanged

\* lines 330-346: logout deletes the stored token of the cookie's user
logout(token) ==
    /\ token \in Cookies
    /\ IF token = NoToken
       THEN /\ reply' = AuReply("logout", NoEmail, 200, "Logged out successfully")
            /\ UNCHANGED refresh
       ELSE IF token = JunkToken
       THEN /\ reply' = AuReply("logout", NoEmail, 500, "Server error")
            /\ UNCHANGED refresh
       ELSE /\ refresh' = [refresh EXCEPT ![token.userId] = NoToken]
            /\ reply' = AuReply("logout", token.userId, 200, "Logged out successfully")
    /\ UNCHANGED <<users, au, now, issued, latest, evaluated, acceptedOtps,
                   acceptedTokens, jar>>
    /\ PayUnchanged

\* a second passes
ClockTick ==
    /\ now < MaxNow
    /\ now' = now + 1
    /\ UNCHANGED <<users, refresh, au, reply, issued, latest, evaluated, acceptedOtps,
                   acceptedTokens, jar>>
    /\ PayUnchanged

\* the accounts at process start: no user, no token, every handler idle
AuthStart ==
    /\ users = [e \in Emails |-> NoUserDoc]
    /\ refresh = [e \in Emails |-> NoToken]
    /\ au = [w \in AuthWorkers |-> AuIdle]
    /\ reply = NoReply
    /\ now = 0
    /\ issued = 0
    /\ latest = [e \in Emails |-> NeverIssued]
    /\ evaluated = [e \in Emails |-> 0]
    /\ acceptedOtps = {}
    /\ acceptedTokens = {}
    /\ jar = {}

\* ---------------------------------------------------------- specification
Init ==
    /\ stock \in [Products -> 0..MaxStock]
    /\ stock0 = stock
    /\ orders = {}
    /\ pending = [id \in OrderIds |-> NoRes]
    /\ gw = {}
    /\ secret = GatewayKey
    /\ cs = [s \in Sessions |-> CsIdle]
    /\ co = [w \in Workers |-> CoIdle]
    /\ wh = [h \in Hooks |-> WhIdle]
    /\ last = NoAnswer
    /\ decById = [id \in OrderIds |-> ZeroQty]
    /\ created = {}
    /\ price = [p \in Products |-> Price(p)]
    /\ amount = [id \in OrderIds |-> 0]
    /\ ttl = [id \in OrderIds |-> 0]
    /\ age = [id \in OrderIds |-> MaxAge]
    /\ sent = {}
    /\ AuthStart

\* carts whose product ids all exist, and the webhooks the gateway itself sends
ValidCarts == {c \in Carts : \A i \in 1..Len(c) : c[i].productId \in Products}
SignedRequests == {r \in Requests : GatewaySigned(r)}

\* concurrent checkouts and gateway webhooks
Next ==
    \/ \E s \in Sessions, products \in ValidCarts : CsStart(s, products, "u1")
    \/ \E s \in Sessions : CsFetchProduct(s)
    \/ \E s \in Sessions : CsGatewayOk(s)
    \/ \E s \in Sessions : CsGatewayFail(s)
    \/ \E s \in Sessions : CsStore(s)
    \/ \E s \in Sessions : CsStoreFail(s)
    \/ \E id \in OrderIds : Expire(id)
    \/ \E w \in Workers, orderId \in OrderIds \cup {NoId}, payment \in GwStatus :
          CoStart(w, orderId, payment, "u1")
    \/ \E w \in Workers, orderId \in OrderIds : CoFetchThrows(w, orderId)
    \/ \E w \in Workers : CoFindOrder(w)
    \/ \E w \in Workers : CoGetPending(w)
    \/ \E w \in Workers : CoCreate(w)
    \/ \E w \in Workers : CoDecrement(w)
    \/ \E w \in Workers : CoRollbackOrder(w)
    \/ \E w \in Workers : CoRollbackRedis(w)
    \/ \E w \in Workers : CoCleanup(w, TRUE, TRUE)
    \/ \E w \in Workers : CoThrow(w)
    \/ \E h \in Hooks, req \in SignedRequests : WhReceive(h, req)
    \/ \E h \in Hooks, req \in SignedRequests : WhFindThrows(h, req)
    \/ \E h \in Hooks : WhSave(h)
    \/ \E h \in Hooks : WhSaveThrows(h)

Spec == Init /\ [][Next]_vars

\* webhooks with any headers, with and without a configured secret, beside one
\* checkout at a time
InitWebhook ==
    /\ stock = [p \in Products |-> MaxStock]
    /\ stock0 = stock
    /\ orders = {}
    /\ pending = [id \in OrderIds |-> NoRes]
    /\ gw = {}
    /\ secret \in {"", GatewayKey}
    /\ cs = [s \in Sessions |-> CsIdle]
    /\ co = [w \in Workers |-> CoIdle]
    /\ wh = [h \in Hooks |-> WhIdle]
    /\ last = NoAnswer
    /\ decById = [id \in OrderIds |-> ZeroQty]
    /\ created = {}
    /\ price = [p \in Products |-> Price(p)]
    /\ amount = [id \in OrderIds |-> 0]
    /\ ttl = [id \in OrderIds |-> 0]
    /\ age = [id \in OrderIds |-> MaxAge]
    /\ sent = {}
    /\ AuthStart

NextWebhook ==
    \/ \E s \in Sessions, products \in ValidCarts : CsStart(s, products, "u1")
    \/ \E s \in Sessions : CsFetchProduct(s)
    \/ \E s \in Sessions : CsGatewayOk(s)
    \/ \E s \in Sessions : CsStore(s)
    \/ \E orderId \in OrderIds : CoStart(1, orderId, "SUCCESS", "u1")
    \/ CoFindOrder(1)
    \/ CoGetPending(1)
    \/ CoCreate(1)
    \/ CoDecrement(1)
    \/ CoRollbackOrder(1)
    \/ CoRollbackRedis(1)
    \/ CoCleanup(1, TRUE, TRUE)
    \/ \E h \in Hooks, req \in Requests : WhReceive(h, req)
    \/ \E h \in Hooks, req \in Requests : WhFindThrows(h, req)
    \/ \E h \in Hooks : WhSave(h)
    \/ \E h \in Hooks : WhSaveThrows(h)

SpecWebhook == InitWebhook /\ [][NextWebhook]_vars

\* one checkout at a time while an administrator edits the catalog
InitCatalog ==
    /\ stock = [p \in Products |-> MaxStock]
    /\ stock0 = stock
    /\ orders = {}
    /\ pending = [id \in OrderIds |-> NoRes]
    /\ gw = {}
    /\ secret = GatewayKey
    /\ cs = [s \in Sessions |-> CsIdle]
    /\ co = [w \in Workers |-> CoIdle]
    /\ wh = [h \in Hooks |-> WhIdle]
    /\ last = NoAnswer
    /\ decById = [id \in OrderIds |-> ZeroQty]
    /\ created = {}
    /\ price \in [Products -> Prices]
    /\ amount = [id \in OrderIds |-> 0]
    /\ ttl = [id \in OrderIds |-> 0]
    /\ age = [id \in OrderIds |-> MaxAge]
    /\ sent = {}
    /\ AuthStart

NextCatalog ==
    \/ \E s \in Sessions, products \in ValidCarts : CsStart(s, products, "u1")
    \/ \E s \in Sessions : CsFetchProduct(s)
    \/ \E s \in Sessions : CsGatewayOk(s)
    \/ \E s \in Sessions : CsStore(s)
    \/ \E p \in Products, newPrice \in Prices, newStock \in 0..MaxStock :
          CatalogUpdate(p, newPrice, newStock)
    \/ \E orderId \in OrderIds : CoStart(1, orderId, "SUCCESS", "u1")
    \/ CoFindOrder(1)
    \/ CoGetPending(1)
    \/ CoCreate(1)
    \/ CoDecrement(1)
    \/ CoRollbackOrder(1)
    \/ CoRollbackRedis(1)
    \/ CoCleanup(1, TRUE, TRUE)

SpecCatalog == InitCatalog /\ [][NextCatalog]_vars

\* one checkout at a time by any users, while time passes and the mail and
\* shipment services may fail
InitEnv ==
    /\ stock = [p \in Products |-> MaxStock]
    /\ stock0 = stock
    /\ orders = {}
    /\ pending = [id \in OrderIds |-> NoRes]
    /\ gw = {}
    /\ secret = GatewayKey
    /\ cs = [s \in Sessions |-> CsIdle]
    /\ co = [w \in Workers |-> CoIdle]
    /\ wh = [h \in Hooks |-> WhIdle]
    /\ last = NoAnswer
    /\ decById = [id \in OrderIds |-> ZeroQty]
    /\ created = {}
    /\ price = [p \in Products |-> Price(p)]
    /\ amount = [id \in OrderIds |-> 0]
    /\ ttl = [id \in OrderIds |-> 0]
    /\ age = [id \in OrderIds |-> MaxAge]
    /\ sent = {}
    /\ AuthStart

NextEnv ==
    \/ \E s \in Sessions, products \in ValidCarts, user \in Users \cup {NoUser} :
          CsStart(s, products, user)
    \/ \E s \in Sessions : CsFetchProduct(s)
    \/ \E s \in Sessions : CsGatewayOk(s)
    \/ \E s \in Sessions : CsStore(s)
    \/ Tick(TickStep)
    \/ \E orderId \in OrderIds, user \in Users \cup {NoUser} :
          CoStart(1, orderId, "SUCCESS", user)
    \/ CoFindOrder(1)
    \/ CoGetPending(1)
    \/ CoCreate(1)
    \/ CoDecrement(1)
    \/ CoRollbackOrder(1)
    \/ CoRollbackRedis(1)
    \/ \E mailOk \in BOOLEAN, shipOk \in BOOLEAN : CoCleanup(1, mailOk, shipOk)

SpecEnv == InitEnv /\ [][NextEnv]_vars

\* two checkouts, each of one line, confirmed by concurrent workers
InitRace ==
    /\ stock = [p \in Products |-> MaxStock]
    /\ stock0 = stock
    /\ orders = {}
    /\ pending = [id \in RaceIds |-> NoRes]
    /\ gw = {}
    /\ secret = GatewayKey
    /\ cs = [s \in Sessions |-> CsIdle]
    /\ co = [w \in Workers |-> CoIdle]
    /\ wh = [h \in Hooks |-> WhIdle]
    /\ last = NoAnswer
    /\ decById = [id \in RaceIds |-> ZeroQty]
    /\ created = {}
    /\ price = [p \in Products |-> Price(p)]
    /\ amount = [id \in RaceIds |-> 0]
    /\ ttl = [id \in RaceIds |-> 0]
    /\ age = [id \in RaceIds |-> MaxAge]
    /\ sent = {}
    /\ AuthStart

SingleLineCarts == {c \in ValidCarts : Len(c) = 1}

NextRace ==
    \/ \E s \in Sessions, products \in SingleLineCarts : CsStart(s, products, "u1")
    \/ \E s \in Sessions : CsFetchProduct(s)
    \/ \E s \in Sessions : CsGatewayOk(s)
    \/ \E s \in Sessions : CsStore(s)
    \/ \E w \in Workers, orderId \in RaceIds : CoStart(w, orderId, "SUCCESS", "u1")
    \/ \E w \in Workers : CoFindOrder(w)
    \/ \E w \in Workers : CoGetPending(w)
    \/ \E w \in Workers : CoCreate(w)
    \/ \E w \in Workers : CoDecrement(w)
    \/ \E w \in Workers : CoRollbackOrder(w)
    \/ \E w \in Workers : CoRollbackRedis(w)
    \/ \E w \in Workers : CoCleanup(w, TRUE, TRUE)
    \/ \E w \in Workers : CoThrow(w)

SpecRace == InitRace /\ [][NextRace]_vars

\* one checkout, the gateway's webhooks and the administrator's status changes
InitStatus == InitEnv

NextStatus ==
    \/ \E s \in Sessions, products \in SingleLineCarts : CsStart(s, products, "u1")
    \/ \E s \in Sessions : CsFetchProduct(s)
    \/ \E s \in Sessions : CsGatewayOk(s)
    \/ \E s \in Sessions : CsStore(s)
    \/ \E orderId \in OrderIds : CoStart(1, orderId, "SUCCESS", "u1")
    \/ CoFindOrder(1)
    \/ CoGetPending(1)
    \/ CoCreate(1)
    \/ CoDecrement(1)
    \/ CoCleanup(1, TRUE, TRUE)
    \/ \E h \in Hooks, req \in SignedRequests : WhReceive(h, req)
    \/ \E h \in Hooks : WhSave(h)
    \/ \E doc \in DocIds, status \in StatusInputs, mailOk \in BOOLEAN :
          updateOrderStatus(doc, status, mailOk)

SpecStatus == InitStatus /\ [][NextStatus]_vars

\* sessions opened for any cart, also one naming an unknown product, beside a
\* checkout that takes stock
InitCart == Init

NextCart ==
    \/ \E s \in Sessions, products \in Carts, user \in Users \cup {NoUser} :
          CsStart(s, products, user)
    \/ \E s \in Sessions : CsFetchProduct(s)
    \/ \E s \in Sessions : CsGatewayOk(s)
    \/ \E s \in Sessions : CsGatewayFail(s)
    \/ \E s \in Sessions : CsStore(s)
    \/ \E s \in Sessions : CsStoreFail(s)
    \/ \E orderId \in OrderIds, user \in Users : CoStart(1, orderId, "SUCCESS", user)
    \/ CoFindOrder(1)
    \/ CoGetPending(1)
    \/ CoCreate(1)
    \/ CoDecrement(1)
    \/ CoRollbackOrder(1)
    \/ CoRollbackRedis(1)
    \/ CoCleanup(1, TRUE, TRUE)

SpecCart == InitCart /\ [][NextCart]_vars

\* sign-up and OTP verification requests on concurrent workers
InitOtp == InitEnv

NextOtp ==
    \/ \E w \in AuthWorkers, email \in Members : signupFind(w, email)
    \/ \E w \in AuthWorkers : signupSave(w)
    \/ \E w \in AuthWorkers : signupCreate(w)
    \/ \E w \in AuthWorkers, email \in Emails : resendFind(w, email)
    \/ \E w \in AuthWorkers : resendSave(w)
    \/ \E w \in AuthWorkers, email \in Emails, otp \in OtpInputs :
          verifyFind(w, email, otp)
    \/ \E w \in AuthWorkers : attemptSave(w)
    \/ \E w \in AuthWorkers : verifySave(w)
    \/ \E w \in AuthWorkers : verifyStore(w)

SpecOtp == InitOtp /\ [][NextOtp]_vars

\* password-reset requests for a verified account and for an unknown email, on
\* concurrent workers, with OTPs timing out
VerifiedDoc == [NoUserDoc EXCEPT !.exists = TRUE, !.isVerified = TRUE]

InitReset ==
    /\ stock = [p \in Products |-> MaxStock]
    /\ stock0 = stock
    /\ orders = {}
    /\ pending = [id \in OrderIds |-> NoRes]
    /\ gw = {}
    /\ secret = GatewayKey
    /\ cs = [s \in Sessions |-> CsIdle]
    /\ co = [w \in Workers |-> CoIdle]
    /\ wh = [h \in Hooks |-> WhIdle]
    /\ last = NoAnswer
    /\ decById = [id \in OrderIds |-> ZeroQty]
    /\ created = {}
    /\ price = [p \in Products |-> Price(p)]
    /\ amount = [id \in OrderIds |-> 0]
    /\ ttl = [id \in OrderIds |-> 0]
    /\ age = [id \in OrderIds |-> MaxAge]
    /\ sent = {}
    /\ users = [e \in Emails |-> IF e \in Members THEN VerifiedDoc ELSE NoUserDoc]
    /\ refresh = [e \in Emails |-> NoToken]
    /\ au = [w \in AuthWorkers |-> AuIdle]
    /\ reply = NoReply
    /\ now = 0
    /\ issued = 0
    /\ latest = [e \in Emails |-> NeverIssued]
    /\ evaluated = [e \in Emails |-> 0]
    /\ acceptedOtps = {}
    /\ acceptedTokens = {}
    /\ jar = {}

NextReset ==
    \/ \E w \in AuthWorkers, email \in Emails \cup {NoEmail} : forgotFind(w, email)
    \/ \E w \in AuthWorkers : forgotSave(w)
    \/ \E w \in AuthWorkers, email \in Emails \cup {NoEmail}, otp \in OtpInputs :
          resetFind(w, email, otp)
    \/ \E w \in AuthWorkers : attemptSave(w)
    \/ \E w \in AuthWorkers : resetSave(w)
    \/ \E email \in Emails : OtpTimesOut(email)

SpecReset == InitReset /\ [][NextReset]_vars

\* logins, token refreshes and logouts of a verified account on concurrent
\* workers, while the clock runs
InitToken == InitReset

NextToken ==
    \/ \E email \in Emails, passwordOk \in BOOLEAN : login(email, passwordOk)
    \/ \E w \in AuthWorkers, token \in Cookies : refreshGet(w, token)
    \/ \E w \in AuthWorkers : refreshStore(w)
    \/ \E token \in Cookies : logout(token)
    \/ ClockTick

SpecToken == InitToken /\ [][NextToken]_vars

\* ------------------------------------------------------------------ claims

StockNeverNegative == \A p \in Products : stock[p] >= 0
\* a conditional decrement has failed closed on a product that was sold out
DecrementFailedClosed ==
    \E w \in Workers :
        /\ co[w].pc = "rollbackOrder"
        /\ LET item == co[w].orderData.products[co[w].i]
           IN stock[item.productId] < item.quantity
              /\ stock[item.productId] < stock0[item.productId]

\* C3: when a line's decrement fails, the decrements this invocation applied
\* for the earlier lines have been reversed by the time the 409 is answered:
\* the invocation then holds no unit it took from stock
ConflictReversesDecrements ==
    [][\A w \in Workers :
          (co[w].pc = "rollbackRedis" /\ co'[w].pc = "idle" /\ last'.status = 409)
              => co[w].applied = ZeroQty]_vars

\* C4: whenever no checkoutSuccess invocation is in progress, the units taken
\* from each product's stock are the units of the persisted Orders
StockMatchesOrders ==
    (\A w \in Workers : co[w].pc = "idle")
        => \A p \in Products : stock0[p] - stock[p] = OrderedQty(orders, p)

\* C5: once checkoutSuccess has answered "order created" for an id, that id
\* has exactly one Order, the units taken from stock on its behalf are exactly
\* the ordered quantities, however often checkoutSuccess is repeated; and
\* every Order is inserted with orderStatus "pending"
CheckoutDecrementsOnce ==
    [][/\ \A id \in created' :
            /\ Cardinality(OrdersFor(id)') = 1
            /\ \A o \in OrdersFor(id)', p \in Products :
                   decById'[id][p] = SumQty(o.products, p)
       /\ \A o \in orders' :
            (\A q \in orders : q.id # o.id) => o.orderStatus = "pending"]_vars
\* checkoutSuccess was repeated for an id whose Order it had created
RepeatedAfterCreated ==
    /\ last.handler = "checkoutSuccess"
    /\ last.message = "Order already processed"
    /\ last.orderId \in created
    /\ \E p \in Products : decById[last.orderId][p] > 0

\* C6: the invocation whose insert the uniqueness constraint refused answers
\* success ("already processed"), never a failure
RefusedInsertIsSuccess ==
    (last.handler = "checkoutSuccess" /\ last.message = "E11000 duplicate key error")
        => last.status = 200

\* C7: checkoutSuccess never rejects on the gateway's payment status while an
\* Order exists for the id: it answers with that Order
IdempotencyCheckFirst ==
    [][(/\ last' # last
        /\ last'.handler = "checkoutSuccess"
        /\ last'.orderId # NoId
        /\ OrdersFor(last'.orderId) # {}
        /\ \A w \in Workers : co[w].orderId # last'.orderId)
          => /\ last'.status = 200
             /\ last'.message = "Order already processed"
             /\ \E o \in OrdersFor(last'.orderId) : o.id = last'.order]_vars

\* C8: a gateway-signed PAYMENT_SUCCESS webhook for an id that has a
\* Reservation leaves an Order for that id when its handler has finished
WebhookMaterializes ==
    [][\A h \in Hooks, req \in SignedRequests :
          (/\ WhReceive(h, req)
           /\ BodyType(req.rawBody) = "PAYMENT_SUCCESS_WEBHOOK"
           /\ pending[BodyOrderId(req.rawBody)] # NoRes
           /\ wh'[h].pc = "idle")
              => OrdersFor(BodyOrderId(req.rawBody))' # {}]_vars

\* C9: with a secret configured, a webhook that lacks the signature or the
\* timestamp header is answered 401
UnsignedWebhookRejected ==
    (last.handler = "cashfreeWebhook" /\ last.sig = "missing" /\ secret # "")
        => last.status = 401

\* C10: a webhook whose body differs from the one the gateway signed (same
\* signature, same timestamp) is answered 401 at once and changes no Order,
\* no stock and no Reservation
TamperedWebhookRejected ==
    [][\A h \in Hooks, req \in Requests :
          (Tampered(req) /\ WhReceive(h, req))
              => /\ last'.handler = "cashfreeWebhook" /\ last'.status = 401
                 /\ wh'[h].pc = "idle"
                 /\ UNCHANGED <<orders, stock, pending>>]_vars
\* a tampered webhook has been answered
TamperedWebhookAnswered ==
    /\ last.handler = "cashfreeWebhook"
    /\ last.sig = "tampered"
    /\ last.status = 401


\* C11: a webhook that presents both headers is answered 401 when its signature
\* does not verify (also when the presented signature has another length than
\* the digest) and 200 when it verifies; a webhook whose Order lookup or save
\* throws is answered 200
WebhookAnswers401Or200 ==
    [][\A h \in Hooks, req \in Requests :
         /\ (~MissingHeader(req) /\ WhReceive(h, req) /\ wh'[h].pc = "idle")
               => last'.status = IF secret # "" /\ GatewaySigned(req) THEN 200 ELSE 401
         /\ (WhFindThrows(h, req) \/ WhSaveThrows(h)) => last'.status = 200]_vars

\* C14: when the gateway call of createCheckoutSession fails, the invocation
\* ends without writing a Reservation and without changing stock or Orders, and
\* a Reservation exists only for an order id the gateway has accepted
NoReservationOnGatewayFailure ==
    /\ [](\A id \in OrderIds : pending[id] # NoRes => id \in gw)
    /\ [][\A s \in Sessions :
            (cs[s].pc = "gateway" /\ cs'[s].pc = "idle")
               => UNCHANGED <<pending, stock, orders>>]_vars
\* the gateway call has failed: the session is answered 500 and the gateway
\* knows no order
GatewayFailureAnswered ==
    /\ last.handler = "createCheckoutSession"
    /\ last.status = 500
    /\ gw = {}
    /\ \A id \in OrderIds : pending[id] = NoRes

\* C20: an Order that checkoutSuccess has reported with a success answer is
\* still persisted after every later step
ReportedOrderStays ==
    [][(/\ last.handler = "checkoutSuccess"
        /\ last.status = 200
        /\ \E o \in orders : o.id = last.order)
          => \E o \in orders' : o.id = last.order]_vars

\* C12: when the Reservation names an authenticated user and checkoutSuccess is
\* called by another authenticated user, the call is answered 403 and leaves
\* Orders, stock and the Reservation as they were
OwnershipEnforced ==
    [][\A w \in Workers :
         (/\ CoGetPending(w)
          /\ pending[co[w].orderId] # NoRes
          /\ pending[co[w].orderId].userId \in Users
          /\ co[w].user \in Users \ {pending[co[w].orderId].userId})
            => /\ last'.handler = "checkoutSuccess"
               /\ last'.status = 403
               /\ last'.orderId = co[w].orderId
               /\ co'[w].pc = "idle"
               /\ UNCHANGED <<orders, stock, pending, ttl>>]_vars
\* another user was turned away and the owner's Reservation is still there
StrangerRejected ==
    /\ last.handler = "checkoutSuccess"
    /\ last.status = 403
    /\ pending[last.orderId] # NoRes
    /\ pending[last.orderId].userId \in Users
    /\ orders = {}
    /\ stock = stock0

\* C13: a Reservation is never in the store PENDING_ORDER_TTL seconds after it
\* was written, and a checkoutSuccess that finds no Reservation (and no Order)
\* is answered 400 "session expired" without creating an Order or changing stock
ReservationExpires ==
    /\ [](\A id \in OrderIds : pending[id] # NoRes => age[id] < PENDING_ORDER_TTL)
    /\ [][\A w \in Workers :
            (CoGetPending(w) /\ pending[co[w].orderId] = NoRes)
               => /\ last'.handler = "checkoutSuccess"
                  /\ last'.status = 400
                  /\ last'.message = "Order data not found. Session may have expired."
                  /\ co'[w].pc = "idle"
                  /\ UNCHANGED <<orders, stock>>]_vars
\* a paid session whose Reservation ran out was confirmed too late
ExpiredSessionRejected ==
    /\ last.handler = "checkoutSuccess"
    /\ last.message = "Order data not found. Session may have expired."
    /\ last.orderId \in gw
    /\ pending[last.orderId] = NoRes
    /\ \A s \in Sessions : cs[s].pc = "idle"
    /\ orders = {}
    /\ stock = stock0

\* C15: every stored Reservation with tax-inclusive subtotal S has
\* baseSubtotal the integer nearest to S/1.05 (= 20S/21), tax = S - baseSubtotal,
\* shipping 99 up to S = 5000 and 0 from S = 5001, and total = S + shipping
PricingExact ==
    \A id \in OrderIds :
        pending[id] # NoRes =>
            LET r == pending[id]
                S == SumPrice(r.products)
                d == 21 * r.subtotal - 20 * S
            IN /\ 2 * d < 21 /\ 2 * d > -21
               /\ r.subtotal + r.tax = S
               /\ r.tax = S - r.subtotal
               /\ (S <= 5000 => r.shipping = 99)
               /\ (S >= 5001 => r.shipping = 0)
               /\ r.discount = 0
               /\ r.totalAmount = S + r.shipping
\* a Reservation at the shipping threshold: S = 5000 pays shipping
ThresholdReserved ==
    \E id \in OrderIds :
        /\ pending[id] # NoRes
        /\ SumPrice(pending[id].products) = 5000
        /\ pending[id].subtotal = 4762
        /\ pending[id].totalAmount = 5099

\* C16: every Order carries the total the gateway was asked to charge for its
\* order id and, as long as the Reservation exists, the Reservation's total and
\* line prices and quantities, whatever the catalog says by then
OrderKeepsFrozenValues ==
    \A o \in orders :
        LET id == o.cashfreeOrderId
            r == pending[id]
        IN /\ o.totalAmount = amount[id]
           /\ r # NoRes =>
                 /\ o.totalAmount = r.totalAmount
                 /\ Len(o.products) = Len(r.products)
                 /\ \A k \in 1..Len(o.products) :
                       /\ o.products[k].productId = r.products[k].productId
                       /\ o.products[k].price = r.products[k].price
                       /\ o.products[k].quantity = r.products[k].quantity
\* an Order was created after the catalog price of one of its products changed
OrderAfterPriceChange ==
    \E o \in orders :
        /\ pending[o.cashfreeOrderId] # NoRes
        /\ \E k \in 1..Len(o.products) :
              o.products[k].price # price[o.products[k].productId]

\* C17: when the confirmation mail or the shipment creation fails, the step
\* still answers 200 with the Order, the Order stays persisted, the stock keeps
\* the Order's decrement and the Reservation is deleted
DispatchFailureHarmless ==
    [][\A w \in Workers, mailOk \in BOOLEAN, shipOk \in BOOLEAN :
         (~(mailOk /\ shipOk) /\ CoCleanup(w, mailOk, shipOk))
            => /\ last'.status = 200
               /\ last'.message = "Payment verified and order created"
               /\ \E o \in orders' :
                     /\ o.id = last'.order
                     /\ o.cashfreeOrderId = co[w].orderId
                     /\ \A p \in Products :
                           decById'[co[w].orderId][p] = SumQty(o.products, p)
               /\ UNCHANGED <<orders, stock>>
               /\ pending'[co[w].orderId] = NoRes]_vars
\* an Order was confirmed although its confirmation mail was never sent
ConfirmedWithoutMail ==
    \E id \in created :
        /\ <<"mail", id>> \notin sent
        /\ OrdersFor(id) # {}
        /\ pending[id] = NoRes
        /\ \E p \in Products : decById[id][p] > 0

OversellNeverPersisted ==
    \A p \in Products : OrderedQty(orders, p) <= stock0[p]


\* C21: a confirmation of an order the gateway knows whose latest payment attempt
\* is not successful (or that has no attempt) is answered 400 at once: the
\* invocation does not proceed, and Orders, stock and the Reservation with its
\* time to live are left as they were
UnpaidConfirmationRejected ==
    [][\A w \in Workers : \A orderId \in OrderIds : \A payment \in {"NONE", "FAILED"} :
          (CoStart(w, orderId, payment, "u1") /\ orderId \in gw)
              => /\ last'.handler = "checkoutSuccess"
                 /\ last'.orderId = orderId
                 /\ last'.status = 400
                 /\ last'.message = IF payment = "NONE"
                                    THEN "No payment information found"
                                    ELSE "Payment not completed"
                 /\ co' = co
                 /\ UNCHANGED <<orders, stock, pending, ttl, age>>]_vars

\* C21 witness: a confirmation was rejected for a failed payment while the
\* Reservation is still stored and no Order exists, so a later one can materialize
UnpaidRejectedReservationKept ==
    /\ last.handler = "checkoutSuccess"
    /\ last.message = "Payment not completed"
    /\ last.orderId \in OrderIds
    /\ pending[last.orderId] # NoRes
    /\ OrdersFor(last.orderId) = {}


\* C22: when a line's conditional decrement fails, the invocation ends with 409
\* having deleted the Order it created and the Reservation of the id, so that no
\* Order and no Reservation is left for the id; the next checkoutSuccess answer
\* for that id is the session-expired rejection
ConflictRollsBack ==
    /\ [][\A w \in Workers :
             CoRollbackRedis(w)
                 => /\ last'.handler = "checkoutSuccess"
                    /\ last'.orderId = co[w].orderId
                    /\ last'.status = 409
                    /\ pending'[co[w].orderId] = NoRes
                    /\ \A o \in orders' : o.id # co[w].newOrder
                    /\ OrdersFor(co[w].orderId)' = {}]_vars
    /\ [][(/\ last.handler = "checkoutSuccess"
           /\ last.status = 409
           /\ last' # last
           /\ last'.handler = "checkoutSuccess"
           /\ last'.orderId = last.orderId
           /\ last'.message \notin {"No payment information found", "Payment not completed"}
           /\ last'.status # 500)
              => /\ last'.status = 400
                 /\ last'.message = "Order data not found. Session may have expired."]_vars


FailureCancelsOnlyPending ==
    [][\A h \in Hooks :
          (WhSave(h) /\ wh[h].type \in {"PAYMENT_FAILED_WEBHOOK",
                                        "PAYMENT_USER_DROPPED_WEBHOOK"})
              => /\ \A o \in orders :
                       o.orderStatus # "pending" => o \in orders'
                 /\ UNCHANGED <<stock, pending>>]_vars


\* C25: every change of an Order's orderStatus, by updateOrderStatus or by
\* cashfreeWebhook, is a transition of pending -> processing -> shipped ->
\* delivered or to 'cancelled' from a status that is not final: a delivered or
\* cancelled Order keeps its status, and no status moves back or skips ahead
StatusFollowsStateMachine ==
    [][\A o \in orders : \A n \in orders' :
          (n.id = o.id /\ n.orderStatus # o.orderStatus)
              => \/ <<o.orderStatus, n.orderStatus>>
                        \in {<<"pending", "processing">>, <<"processing", "shipped">>,
                             <<"shipped", "delivered">>}
                 \/ /\ o.orderStatus \in {"pending", "processing", "shipped"}
                    /\ n.orderStatus = "cancelled"]_vars


\* C26: no step of createCheckoutSession changes stock or Orders; a cart with a
\* line whose product id is invalid or absent, or whose quantity is more than
\* the stock read for it, is answered 400 by the step that finds it, which opens
\* no gateway session and writes no Reservation, and only a cart without such a
\* line gets as far as the gateway
SessionChecksCart ==
    /\ [][\A s \in Sessions :
             (\/ \E products \in Carts, user \in Users \cup {NoUser} :
                    CsStart(s, products, user)
              \/ CsFetchProduct(s) \/ CsGatewayOk(s) \/ CsGatewayFail(s)
              \/ CsStore(s) \/ CsStoreFail(s))
                 => UNCHANGED <<stock, orders>>]_vars
    /\ [][\A s \in Sessions :
             LET c == cs[s]
                 i == Len(c.dbProducts) + 1
                 item == c.products[i]
             IN (/\ CsFetchProduct(s)
                 /\ \/ item.productId \notin Products
                    \/ /\ i = Len(c.products)
                       /\ \/ stock[item.productId] < item.quantity
                          \/ \E j \in 1..(i - 1) :
                                c.dbProducts[j].stock < c.products[j].quantity)
                    => /\ last'.handler = "createCheckoutSession"
                       /\ last'.status = 400
                       /\ last'.message \in {"Product not found", "Insufficient stock"}
                       /\ cs'[s].pc = "idle"
                       /\ UNCHANGED <<gw, amount, pending, ttl, age>>]_vars
    /\ [](\A s \in Sessions :
             cs[s].pc \in {"gateway", "store"}
                 => \A i \in 1..Len(cs[s].products) :
                       /\ cs[s].products[i].productId \in Products
                       /\ cs[s].products[i].quantity <= cs[s].dbProducts[i].stock)

\* C26 witness: a cart asking for a product that is out of stock was answered
\* 400 with no gateway session opened and no Reservation written
OutOfStockCartRefused ==
    /\ last.handler = "createCheckoutSession"
    /\ last.status = 400
    /\ last.message = "Insufficient stock"
    /\ gw = {}
    /\ \A id \in OrderIds : pending[id] = NoRes
    /\ orders = {}


\* C27: for the OTP stored for an account at most MaxAttempts incorrect guesses
\* are compared with it, whatever the interleaving of the verification requests,
\* and a request that finds otpAttempts at MaxAttempts is answered 429 whatever
\* its guess
LockoutBoundsGuesses ==
    /\ [](\A e \in Emails : evaluated[e] <= MaxAttempts)
    /\ [][\A w \in AuthWorkers : \A e \in Emails : \A otp \in OtpInputs :
             (/\ verifyFind(w, e, otp) \/ resetFind(w, e, otp)
              /\ users[e].exists
              /\ users[e].otpAttempts >= MaxAttempts
              /\ otp # NoOtp
              /\ ~users[e].isVerified \/ au'[w].handler = "verifyResetOTP"
                                      \/ reply'.handler = "verifyResetOTP")
                 => reply'.status = 429 /\ au'[w].pc = "idle"]_vars

\* C28: refreshToken accepts a refresh token at most once: the step that
\* rotates the stored token is never taken for a token that was accepted
\* before, also when two requests present the same token at the same time,
\* and a token the store no longer holds (rotated away or logged out) is
\* answered 401
RefreshTokenAcceptedOnce ==
    /\ [][\A w \in AuthWorkers :
             refreshStore(w) => au[w].token \notin acceptedTokens]_vars
    /\ [][\A w \in AuthWorkers : \A token \in jar :
             (refreshGet(w, token) /\ refresh[token.userId] # token)
                 => reply'.status = 401 /\ au'[w].pc = "idle"]_vars

\* C29: a verification accepts an OTP only when it is the one issued most
\* recently for the account and no verification has accepted it before
OtpAcceptedOnce ==
    [][\A w \in AuthWorkers :
          (verifyStore(w) \/ resetSave(w))
              => /\ au[w].otp = latest[au[w].email]
                 /\ au[w].otp \notin acceptedOtps]_vars

\* C30: two forgotPassword requests that each carry an email are answered with
\* the same status and message, whether or not the email belongs to a
\* registered, verified account
ForgotAnswersAlike ==
    [][(/\ reply.handler = "forgotPassword"
        /\ reply'.handler = "forgotPassword"
        /\ reply.email # NoEmail
        /\ reply'.email # NoEmail)
           => /\ reply'.status = reply.status
              /\ reply'.message = reply.message]_vars

=============================================================================
